---- MODULE Spec2Model ----
(***************************************************************************)
(* Model of src/src/app/page.tsx: the JSON normaliser                      *)
(* (normalizeTransactionData), the parse handler (parseJsonData), the      *)
(* Clear handler, the Execute button and the asynchronous                  *)
(* executeTransactions flow of the Home component.                         *)
(***************************************************************************)
EXTENDS Integers, Sequences, FiniteSets, TLC

VARIABLES
    jsonInput,   \* useState("")       page.tsx:198  the text of the textarea
    parsedData,  \* useState(null)     page.tsx:199  the stored canonical record
    isExecuting, \* useState(false)    page.tsx:200  the in-progress flag
    txStatus,    \* useState("")       page.tsx:201
    error,       \* useState("")       page.tsx:202
    account,     \* useActiveAccount() page.tsx:204
    normalized,  \* the argument and the outcome of a call of normalizeTransactionData
    runs,        \* the invocations of executeTransactions that passed line 229
    calls        \* the calls made to switchChain / sendAndConfirmTransaction

vars == <<jsonInput, parsedData, isExecuting, txStatus, error, account,
          normalized, runs, calls>>

(***************************************************************************)
(* JavaScript values.  A string is the sequence of its characters, a       *)
(* number is an integer or NaN, an object is a function from its own keys  *)
(* to values.  Throw(m) stands for an evaluation that threw an Error with  *)
(* message m.                                                              *)
(***************************************************************************)
Undefined == [t |-> "undefined"]
Null == [t |-> "null"]
NaN == [t |-> "NaN"]
Bool(b) == [t |-> "boolean", b |-> b]
Num(n) == [t |-> "number", n |-> n]
Str(s) == [t |-> "string", s |-> s]
Arr(a) == [t |-> "array", a |-> a]
Obj(f) == [t |-> "object", f |-> f]
Throw(m) == [t |-> "throw", msg |-> m]

IsThrow(v) == v.t = "throw"

TypeErrorMsg == "Cannot read properties of null or undefined"

\* typeof data === 'object' && data !== null
IsNonNullObject(v) == v.t \in {"object", "array"}

\* 'k' in data, for the keys the page uses (none is an array index or a
\* property of Array.prototype / Object.prototype)
HasKey(v, k) == v.t = "object" /\ k \in DOMAIN v.f

\* v.k : reading a property of null or undefined throws a TypeError, a
\* missing property reads as undefined
Get(v, k) ==
    IF IsThrow(v) THEN v
    ELSE IF v.t \in {"undefined", "null"} THEN Throw(TypeErrorMsg)
    ELSE IF HasKey(v, k) THEN v.f[k]
    ELSE Undefined

\* ToBoolean
Truthy(v) ==
    CASE v.t \in {"undefined", "null", "NaN"} -> FALSE
      [] v.t = "boolean" -> v.b
      [] v.t = "number" -> v.n # 0
      [] v.t = "string" -> v.s # <<>>
      [] OTHER -> TRUE

\* a || b
OrElse(a, b) == IF IsThrow(a) THEN a ELSE IF Truthy(a) THEN a ELSE b

\* an object literal { k: e, ... }: it throws what one of the e throws (in
\* each literal of the page all the e throw the same message)
Literal(f) ==
    IF \E k \in DOMAIN f : IsThrow(f[k])
    THEN f[CHOOSE k \in DOMAIN f : IsThrow(f[k])]
    ELSE Obj(f)

(***************************************************************************)
(* Number <-> string conversions of the language.                          *)
(***************************************************************************)
DigitChars == <<"0", "1", "2", "3", "4", "5", "6", "7", "8", "9">>
IsDigit(c) == \E i \in 1..10 : DigitChars[i] = c
DigitVal(c) == (CHOOSE i \in 1..10 : DigitChars[i] = c) - 1
IsWhiteSpace(c) == c \in {" ", "\t", "\n"}

RECURSIVE NatToString(_)
NatToString(n) ==
    IF n < 10 THEN <<DigitChars[n + 1]>>
    ELSE NatToString(n \div 10) \o <<DigitChars[(n % 10) + 1]>>

RECURSIVE JoinElements(_, _)
RECURSIVE JSToString(_)
\* Array.prototype.join(","): null and undefined elements give ""
JoinElements(a, i) ==
    IF i > Len(a) THEN <<>>
    ELSE (IF i > 1 THEN <<",">> ELSE <<>>)
         \o (IF a[i].t \in {"undefined", "null"} THEN <<>> ELSE JSToString(a[i]))
         \o JoinElements(a, i + 1)
\* the abstract operation JSToString
JSToString(v) ==
    CASE v.t = "string" -> v.s
      [] v.t = "number" -> IF v.n < 0 THEN <<"-">> \o NatToString(-v.n)
                           ELSE NatToString(v.n)
      [] v.t = "NaN" -> <<"N", "a", "N">>
      [] v.t = "undefined" -> <<"u", "n", "d", "e", "f", "i", "n", "e", "d">>
      [] v.t = "null" -> <<"n", "u", "l", "l">>
      [] v.t = "boolean" -> IF v.b THEN <<"t", "r", "u", "e">>
                            ELSE <<"f", "a", "l", "s", "e">>
      [] v.t = "array" -> JoinElements(v.a, 1)
      [] OTHER -> <<"[", "o", "b", "j", "e", "c", "t", " ",
                    "O", "b", "j", "e", "c", "t", "]">>

RECURSIVE SkipWhiteSpace(_)
SkipWhiteSpace(s) ==
    IF s # <<>> /\ IsWhiteSpace(Head(s)) THEN SkipWhiteSpace(Tail(s)) ELSE s

\* the longest prefix of s made of decimal digits
RECURSIVE DigitPrefix(_)
DigitPrefix(s) ==
    IF s # <<>> /\ IsDigit(Head(s)) THEN <<Head(s)>> \o DigitPrefix(Tail(s))
    ELSE <<>>

RECURSIVE DigitsValue(_, _)
DigitsValue(s, acc) ==
    IF s = <<>> THEN acc ELSE DigitsValue(Tail(s), 10 * acc + DigitVal(Head(s)))

\* mutant: a string without digits is read as 0 (as Number("") would)
ParseInt10OrZero(v) ==
    IF IsThrow(v) THEN v
    ELSE LET s == SkipWhiteSpace(JSToString(v))
             neg == s # <<>> /\ Head(s) = "-"
             body == IF s # <<>> /\ Head(s) \in {"+", "-"} THEN Tail(s) ELSE s
         IN  Num((IF neg THEN -1 ELSE 1) * DigitsValue(DigitPrefix(body), 0))

\* parseInt(v, 10): JSToString, skip leading white space, an optional sign,
\* then the longest run of digits; NaN when that run is empty
ParseInt10(v) ==
    IF IsThrow(v) THEN v
    ELSE LET s == SkipWhiteSpace(JSToString(v))
             neg == s # <<>> /\ Head(s) = "-"
             body == IF s # <<>> /\ Head(s) \in {"+", "-"} THEN Tail(s) ELSE s
             z == DigitPrefix(body)
         IN  IF z = <<>> THEN NaN
             ELSE Num((IF neg THEN -1 ELSE 1) * DigitsValue(z, 0))

(***************************************************************************)
(* normalizeTransactionData, page.tsx:141-195                              *)
(***************************************************************************)
UnrecognizedMsg == "Unrecognized JSON format"
MissingFieldsMsg == "Invalid transaction data: missing required fields"

\* Format 1: page.tsx:143-152
NormalizeFormat1(d) ==
    LET result == Get(d, "result")
    IN  Literal([tx        |-> Get(result, "tx"),
                 quote     |-> Get(result, "quote"),
                 approveTx |-> Get(result, "approveTx"),
                 chainId   |-> Get(result, "chainId"),
                 warning   |-> Get(d, "warning")])

\* mutant: the currency code is read under its camelCase name
NormalizeAssetCamelKey(a) ==
    Literal([name         |-> Get(a, "name"),
             currencyCode |-> Get(a, "currencyCode"),
             address      |-> Get(a, "address"),
             decimals     |-> Get(a, "decimals")])

\* the asset sub-object of Format 2: page.tsx:168-179
NormalizeAsset(a) ==
    Literal([name         |-> Get(a, "name"),
             currencyCode |-> Get(a, "currency_code"),
             address      |-> Get(a, "address"),
             decimals     |-> Get(a, "decimals")])

\* format2.tx.value || "0", page.tsx:165
TxValue(tx) == OrElse(Get(tx, "value"), Str(<<"0">>))

\* the tx sub-object of Format 2: page.tsx:159-166
NormalizeTx(tx) ==
    Literal([data     |-> Get(tx, "data"),
             gas      |-> Get(tx, "gas"),
             gasPrice |-> Get(tx, "gas_price"),
             from     |-> Get(tx, "from"),
             to       |-> Get(tx, "to"),
             value    |-> TxValue(tx)])

\* the quote sub-object of Format 2: page.tsx:167-182
NormalizeQuote(q) ==
    Literal([fromAsset  |-> NormalizeAsset(Get(q, "from_asset")),
             toAsset    |-> NormalizeAsset(Get(q, "to_asset")),
             fromAmount |-> Get(q, "from_amount"),
             toAmount   |-> Get(q, "to_amount")])

\* format2.approve_tx ? {...} : undefined, page.tsx:183-189
NormalizeApproveTx(a) ==
    IF IsThrow(a) THEN a
    ELSE IF Truthy(a)
    THEN Literal([data     |-> Get(a, "data"),
                  gas      |-> Get(a, "gas"),
                  gasPrice |-> Get(a, "gas_price"),
                  from     |-> Get(a, "from"),
                  to       |-> Get(a, "to")])
    ELSE Undefined

\* parseInt(format2.quote.chain_id, 10), page.tsx:190
NormalizeChainId(q) == ParseInt10(Get(q, "chain_id"))

\* Format 2: page.tsx:155-192
NormalizeFormat2(d) ==
    Literal([tx        |-> NormalizeTx(Get(d, "tx")),
             quote     |-> NormalizeQuote(Get(d, "quote")),
             approveTx |-> NormalizeApproveTx(Get(d, "approve_tx")),
             chainId   |-> NormalizeChainId(Get(d, "quote"))])

IsFormat1(d) == IsNonNullObject(d) /\ HasKey(d, "result")
\* mutant: the test of line 155 with || for &&
IsFormat2EitherKey(d) ==
    IsNonNullObject(d) /\ (HasKey(d, "tx") \/ HasKey(d, "quote"))
IsFormat2(d) == IsNonNullObject(d) /\ HasKey(d, "tx") /\ HasKey(d, "quote")

\* mutant: the two detection rules are tried in the other order
normalizeFormat2First(d) ==
    IF IsFormat2(d) THEN NormalizeFormat2(d)
    ELSE IF IsFormat1(d) THEN NormalizeFormat1(d)
    ELSE Throw(UnrecognizedMsg)

normalizeTransactionData(d) ==
    IF IsFormat1(d) THEN NormalizeFormat1(d)
    ELSE IF IsFormat2(d) THEN NormalizeFormat2(d)
    ELSE Throw(UnrecognizedMsg)

(***************************************************************************)
(* The text of the textarea.  A text is the empty text, a text that is not *)
(* JSON, or the JSON text of a value v.                                    *)
(***************************************************************************)
EmptyText == [k |-> "empty"]
MalformedText == [k |-> "malformed"]
JsonText(v) == [k |-> "json", v |-> v]

\* JSON.parse(jsonInput), page.tsx:210
JSONparse(text) ==
    CASE text.k = "json" -> text.v
      [] text.k = "empty" -> Throw("Unexpected end of JSON input")
      [] OTHER -> Throw("Unexpected token")

\* mutant: the required-field check forgets chainId
MissingRequiredTxOnly(d) == ~Truthy(Get(d, "tx"))

\* the required-field check, page.tsx:214
MissingRequired(d) == ~Truthy(Get(d, "tx")) \/ ~Truthy(Get(d, "chainId"))

\* the body of the try block of parseJsonData: the record to store, or the
\* Error that reaches the catch clause, page.tsx:210-218
ParseResult(text) ==
    LET rawData == JSONparse(text)
    IN  IF IsThrow(rawData) THEN rawData
        ELSE LET d == normalizeTransactionData(rawData)
             IN  IF IsThrow(d) THEN d
                 ELSE IF MissingRequired(d) THEN Throw(MissingFieldsMsg)
                 ELSE d

ParseErrorText(m) == "Failed to parse JSON: " \o m

(***************************************************************************)
(* BigInt(v), used by prepareTransaction's arguments, page.tsx:248-270     *)
(***************************************************************************)
BigIntOf(n) == [t |-> "bigint", n |-> n]

HexChars == <<"0", "1", "2", "3", "4", "5", "6", "7", "8", "9",
              "a", "b", "c", "d", "e", "f">>
UpperHexChars == <<"0", "1", "2", "3", "4", "5", "6", "7", "8", "9",
                   "A", "B", "C", "D", "E", "F">>
IsRadixDigit(c, r) == \E i \in 1..r : HexChars[i] = c \/ UpperHexChars[i] = c
RadixDigitVal(c) ==
    (CHOOSE i \in 1..16 : HexChars[i] = c \/ UpperHexChars[i] = c) - 1

RECURSIVE RadixValue(_, _, _)
RadixValue(s, r, acc) ==
    IF s = <<>> THEN acc
    ELSE RadixValue(Tail(s), r, r * acc + RadixDigitVal(Head(s)))

RECURSIVE Reverse(_)
Reverse(s) == IF s = <<>> THEN <<>> ELSE Reverse(Tail(s)) \o <<Head(s)>>

TrimString(s) == Reverse(SkipWhiteSpace(Reverse(SkipWhiteSpace(s))))

AllRadixDigits(s, r) == s # <<>> /\ \A i \in 1..Len(s) : IsRadixDigit(s[i], r)

CannotConvertMsg == "Cannot convert value to a BigInt"

\* StringToBigInt: white space is trimmed, "" is 0n, then a decimal literal
\* with an optional sign or an unsigned 0x / 0o / 0b literal
StringToBigInt(str) ==
    LET s == TrimString(str)
        prefixed == Len(s) >= 2 /\ s[1] = "0"
                    /\ s[2] \in {"x", "X", "o", "O", "b", "B"}
        radix == IF s[2] \in {"x", "X"} THEN 16
                 ELSE IF s[2] \in {"o", "O"} THEN 8 ELSE 2
        signed == s # <<>> /\ Head(s) \in {"+", "-"}
        body == IF signed THEN Tail(s) ELSE s
    IN  IF s = <<>> THEN BigIntOf(0)
        ELSE IF prefixed
        THEN IF AllRadixDigits(SubSeq(s, 3, Len(s)), radix)
             THEN BigIntOf(RadixValue(SubSeq(s, 3, Len(s)), radix, 0))
             ELSE Throw(CannotConvertMsg)
        ELSE IF AllRadixDigits(body, 10)
        THEN BigIntOf((IF Head(s) = "-" THEN -1 ELSE 1) * RadixValue(body, 10, 0))
        ELSE Throw(CannotConvertMsg)

BigInt(v) ==
    CASE IsThrow(v) -> v
      [] v.t \in {"undefined", "null", "NaN"} -> Throw(CannotConvertMsg)
      [] v.t = "boolean" -> BigIntOf(IF v.b THEN 1 ELSE 0)
      [] v.t = "number" -> BigIntOf(v.n)
      [] v.t = "string" -> StringToBigInt(v.s)
      [] OTHER -> StringToBigInt(JSToString(v))

(***************************************************************************)
(* formatAmount, page.tsx:290-303.  The amounts exceed the machine         *)
(* integers, so a BigInt is held here as the sequence of its decimal       *)
(* digits, most significant first, without leading zeros (0n is <<0>>).    *)
(***************************************************************************)
RECURSIVE Strip(_)
Strip(a) == IF Len(a) > 1 /\ Head(a) = 0 THEN Strip(Tail(a)) ELSE a

\* a < b
Less(a, b) ==
    \/ Len(a) < Len(b)
    \/ /\ Len(a) = Len(b)
       /\ \E i \in 1..Len(a) :
            a[i] < b[i] /\ \A j \in 1..(i - 1) : a[j] = b[j]

Pad(a, n) == [i \in 1..n |-> IF i <= n - Len(a) THEN 0 ELSE a[i - (n - Len(a))]]

RECURSIVE AddFrom(_, _, _, _)
AddFrom(a, b, i, carry) ==
    IF i = 0 THEN (IF carry = 0 THEN <<>> ELSE <<carry>>)
    ELSE LET t == a[i] + b[i] + carry
         IN  IF t >= 10 THEN AddFrom(a, b, i - 1, 1) \o <<t - 10>>
             ELSE AddFrom(a, b, i - 1, 0) \o <<t>>

\* a + b
Add(a, b) ==
    LET n == IF Len(a) > Len(b) THEN Len(a) ELSE Len(b)
    IN  Strip(AddFrom(Pad(a, n), Pad(b, n), n, 0))

RECURSIVE SubFrom(_, _, _, _)
SubFrom(a, b, i, borrow) ==
    IF i = 0 THEN <<>>
    ELSE LET t == a[i] - b[i] - borrow
         IN  IF t < 0 THEN SubFrom(a, b, i - 1, 1) \o <<t + 10>>
             ELSE SubFrom(a, b, i - 1, 0) \o <<t>>

\* a - b, for a >= b
Sub(a, b) == Strip(SubFrom(a, Pad(b, Len(a)), Len(a), 0))

\* <<k, r>> with rem = k * b + r and r < b
RECURSIVE Reduce(_, _, _)
Reduce(rem, b, k) ==
    IF Less(rem, b) THEN <<k, rem>> ELSE Reduce(Sub(rem, b), b, k + 1)

\* long division over the digits lo..hi of a, entered with the remainder
\* rem: the quotient digits of that range and the remainder after it
RECURSIVE DivRange(_, _, _, _, _)
DivRange(a, b, lo, hi, rem) ==
    IF lo = hi
    THEN LET r == Reduce(Strip(rem \o <<a[lo]>>), b, 0) IN <<<<r[1]>>, r[2]>>
    ELSE LET mid == (lo + hi) \div 2
             left == DivRange(a, b, lo, mid, rem)
             right == DivRange(a, b, mid + 1, hi, left[2])
         IN  <<left[1] \o right[1], right[2]>>

\* <<a / b, a % b>> of two non-negative BigInts, b > 0
DivMod(a, b) ==
    LET r == DivRange(a, b, 1, Len(a), <<0>>) IN <<Strip(r[1]), r[2]>>

\* BigInt.prototype.toString()
DigitString(a) == [i \in 1..Len(a) |-> DigitChars[a[i] + 1]]

\* BigInt(amount) of a string: white space is trimmed, "" is 0n, an
\* unsigned decimal literal is its value; a string with any other
\* character throws (signed and prefixed literals are not among the
\* amounts of the samples)
BigDigitsOf(d) == [t |-> "bigint", d |-> d]

StringToBigDigits(str) ==
    LET s == TrimString(str)
    IN  IF s = <<>> THEN BigDigitsOf(<<0>>)
        ELSE IF AllRadixDigits(s, 10)
        THEN BigDigitsOf(Strip([i \in 1..Len(s) |-> DigitVal(s[i])]))
        ELSE Throw(CannotConvertMsg)

\* 10^d, exactly
Pow10(d) == <<1>> \o [i \in 1..d |-> 0]

\* 2^53: a Number (IEEE 754 double) has 53 significant bits
TwoTo53 == <<9, 0, 0, 7, 1, 9, 9, 2, 5, 4, 7, 4, 0, 9, 9, 2>>

\* the distance between the Numbers around the integer x: the least power
\* of two u, from u on, with x / u < 2^53
RECURSIVE UlpFrom(_, _)
UlpFrom(x, u) ==
    IF Less(DivMod(x, u)[1], TwoTo53) THEN u ELSE UlpFrom(x, Add(u, u))

Ulp(x) == UlpFrom(x, <<1>>)

\* the Numbers next to the integer x: x itself when x is a Number
NumbersNextTo(x) ==
    LET u == Ulp(x)
        r == DivMod(x, u)[2]
    IN  IF r = <<0>> THEN {x} ELSE {Sub(x, r), Add(Sub(x, r), u)}

\* 10 ** decimals, page.tsx:292: a Number.  The result of ** is
\* implementation-approximated; it is Infinity above the largest Number
\* (10^308 is the last power of ten below it)
Infinity == [t |-> "Infinity"]
NumDigits(d) == [t |-> "number", d |-> d]
MaxPow10 == 308
Exponentiate10(decimals) ==
    IF decimals > MaxPow10 THEN {Infinity}
    ELSE {NumDigits(x) : x \in NumbersNextTo(Pow10(decimals))}

RangeErrorMsg == "The number Infinity cannot be converted to a BigInt"

\* BigInt(n) of a Number: the integer n, a RangeError for Infinity
NumberToBigDigits(n) ==
    IF n = Infinity THEN Throw(RangeErrorMsg) ELSE BigDigitsOf(n.d)

\* String.prototype.padStart(n, "0")
PadStart(s, n) ==
    IF Len(s) >= n THEN s ELSE [i \in 1..(n - Len(s)) |-> "0"] \o s

\* replace(/0+$/, '')
RECURSIVE TrimTrailingZeros(_)
TrimTrailingZeros(s) ==
    IF s # <<>> /\ s[Len(s)] = "0" THEN TrimTrailingZeros(SubSeq(s, 1, Len(s) - 1))
    ELSE s

\* lines 291-302, given the Number that 10 ** decimals evaluated to
formatAmountWith(amount, decimals, power) ==
    LET num == StringToBigDigits(amount)
        divisor == NumberToBigDigits(power)
    IN  IF IsThrow(num) THEN num
        ELSE IF IsThrow(divisor) THEN divisor
        ELSE LET whole == DivMod(num.d, divisor.d)[1]
                 fraction == DivMod(num.d, divisor.d)[2]
                 fractionStr == PadStart(DigitString(fraction), decimals)
                 trimmedFraction == TrimTrailingZeros(fractionStr)
             IN  IF fraction = <<0>> THEN Str(DigitString(whole))
                 ELSE IF trimmedFraction # <<>>
                 THEN Str(DigitString(whole) \o <<".">> \o trimmedFraction)
                 ELSE Str(DigitString(whole))

\* the values formatAmount(amount, decimals) can return or throw
formatAmount(amount, decimals) ==
    {formatAmountWith(amount, decimals, power) :
        power \in Exponentiate10(decimals)}

(***************************************************************************)
(* Sample values                                                           *)
(***************************************************************************)
NoAccount == "undefined"
Accounts == {"0xacc"}
Hashes == {"0xh1", "0xh2"}
RejectMsgs == {"User rejected the request"}
MaxRuns == 2

\* the run records and the log of the external calls
NoCall == [raw |-> Undefined, data |-> Undefined]
Event(i, ev, chain, tx, res) ==
    [run |-> i, ev |-> ev, chain |-> chain, tx |-> tx, res |-> res]

\* the texts of setError / setTxStatus.  The statuses of lines 239 and 259
\* are replaced in the same continuation (lines 243, 263) and never rendered.
NotConnectedMsg == "No parsed data or wallet not connected"
ApprovalStatus == "Executing approval transaction..."
MainStatus == "Executing main transaction..."
\* mutant: the hash is read from a field the confirmation does not have
SuccessStatusWrongField(h) == "Transaction successful! Hash: undefined"
SuccessStatus(h) == "Transaction successful! Hash: " \o h
FailedText(m) == "Transaction failed: " \o m

(***************************************************************************)
(* The state after the first render, page.tsx:198-205                      *)
(***************************************************************************)
Init ==
    /\ jsonInput = EmptyText
    /\ parsedData = Null
    /\ isExecuting = FALSE
    /\ txStatus = ""
    /\ error = ""
    /\ account = NoAccount
    /\ normalized = NoCall
    /\ runs = <<>>
    /\ calls = <<>>

\* the wallet connects or disconnects (ConnectButton, page.tsx:322)
Connect(a) ==
    /\ account = NoAccount
    /\ account' = a
    /\ UNCHANGED <<jsonInput, parsedData, isExecuting, txStatus, error,
                   normalized, runs, calls>>

Disconnect ==
    /\ account # NoAccount
    /\ account' = NoAccount
    /\ UNCHANGED <<jsonInput, parsedData, isExecuting, txStatus, error,
                   normalized, runs, calls>>

\* onChange of the textarea, page.tsx:333
SetJsonInput(text) ==
    /\ jsonInput' = text
    /\ UNCHANGED <<parsedData, isExecuting, txStatus, error, account,
                   normalized, runs, calls>>

\* the Parse JSON button, page.tsx:207-223
\* mutant: the catch block sets the error and keeps the stored record
parseJsonDataKeepsRecord ==
    LET r == ParseResult(jsonInput)
    IN  /\ IF IsThrow(r)
           THEN /\ error' = ParseErrorText(r.msg)
                /\ parsedData' = parsedData
           ELSE /\ error' = ""
                /\ parsedData' = r
        /\ UNCHANGED <<jsonInput, isExecuting, txStatus, account, normalized,
                       runs, calls>>

parseJsonData ==
    LET r == ParseResult(jsonInput)
    IN  /\ IF IsThrow(r)
           THEN /\ error' = ParseErrorText(r.msg)
                /\ parsedData' = Null
           ELSE /\ error' = ""
                /\ parsedData' = r
        /\ UNCHANGED <<jsonInput, isExecuting, txStatus, account, normalized,
                       runs, calls>>

\* the Clear button, page.tsx:345-350
Clear ==
    /\ jsonInput' = EmptyText
    /\ parsedData' = Null
    /\ error' = ""
    /\ txStatus' = ""
    /\ UNCHANGED <<isExecuting, account, normalized, runs, calls>>

(***************************************************************************)
(* Sample inputs.  Absent(k) leaves the key k out of an object.            *)
(***************************************************************************)
Absent == [t |-> "absent"]
With(k, v) == IF v = Absent THEN <<>> ELSE (k :> v)

SData == Str(<<"0", "x", "a">>)
SFrom == Str(<<"0", "x", "f">>)
STo == Str(<<"0", "x", "c">>)
SSpender == Str(<<"0", "x", "e">>)
SGas == Str(<<"2", "1">>)
SGasPrice == Str(<<"7">>)
SApproveGas == Str(<<"9">>)
SAmountIn == Str(<<"1", "5", "0">>)
SAmountOut == Str(<<"4", "2">>)

\* Format 2 (snake_case), page.tsx:102-139
AssetB(code, dec) ==
    Obj([name |-> Str(<<"T", code>>), currency_code |-> Str(<<code>>),
         address |-> Str(<<"0", "x", code>>), decimals |-> Num(dec)])

TxB(value) ==
    Obj([data |-> SData, gas |-> SGas, gas_price |-> SGasPrice,
         from |-> SFrom, to |-> STo] @@ With("value", value))

QuoteB(chain_id) ==
    Obj([from_asset |-> AssetB("A", 2), to_asset |-> AssetB("B", 0),
         from_amount |-> SAmountIn, to_amount |-> SAmountOut]
        @@ With("chain_id", chain_id))

ApproveTxB ==
    Obj([data |-> SData, gas |-> SApproveGas, gas_price |-> SGasPrice,
         from |-> SFrom, to |-> SSpender])

FeeB == Obj([amount |-> Str(<<"3">>), percentage |-> Str(<<"1">>)])

InputB(tx, quote, approve_tx, fee) ==
    Obj([tx |-> tx, quote |-> quote]
        @@ With("approve_tx", approve_tx) @@ With("fee", fee))

\* Format 1 (result wrapper), page.tsx:55-99
AssetA(code, dec) ==
    Obj([name |-> Str(<<"T", code>>), currencyCode |-> Str(<<code>>),
         address |-> Str(<<"0", "x", code>>), decimals |-> Num(dec)])

TxA ==
    Obj([data |-> SData, gas |-> SGas, gasPrice |-> SGasPrice,
         from |-> SFrom, to |-> STo, value |-> Str(<<"5">>)])

QuoteA ==
    Obj([fromAsset |-> AssetA("A", 2), toAsset |-> AssetA("B", 0),
         fromAmount |-> SAmountIn, toAmount |-> SAmountOut])

ApproveTxA ==
    Obj([data |-> SData, gas |-> SApproveGas, gasPrice |-> SGasPrice,
         from |-> SFrom, to |-> SSpender])

WarningA == Obj([code |-> Str(<<"W">>), message |-> Str(<<"m">>)])

ResultA(tx, approveTx, chainId) ==
    Obj([quote |-> QuoteA] @@ With("tx", tx) @@ With("approveTx", approveTx)
        @@ With("chainId", chainId))

InputA(result, warning, tx, quote) ==
    Obj([result |-> result] @@ With("warning", warning)
        @@ With("tx", tx) @@ With("quote", quote))

\* the values of the fields that the samples vary
ChainIdStrings ==
    {Str(<<"1">>), Str(<<"1", "0">>), Str(<<"0">>), Str(<<>>),
     Str(<<"a", "b", "c">>), Str(<<"1", "2", "a">>), Str(<<" ", "7">>),
     Str(<<"-", "3">>), Str(<<"0", "x", "1">>)}
ValuesB == {Absent, Str(<<>>), Str(<<"0">>), Str(<<"5">>)}

\* inputs that follow the interface SwapServiceGrpcTxData
TypedInputsB ==
    {InputB(TxB(v), QuoteB(c), a, f) :
        v \in ValuesB, c \in ChainIdStrings,
        a \in {Absent, ApproveTxB}, f \in {Absent, FeeB}}

\* inputs with the tx and quote keys that break the interface
UntypedInputsB ==
    {InputB(tx, q, a, Absent) :
        tx \in {Null, Obj(<<>>), TxB(Num(0))},
        q \in {Null, Obj(<<>>), QuoteB(Absent), QuoteB(Num(5)), QuoteB(Str(<<"1">>))},
        a \in {Absent, Null}}

InputsA ==
    {InputA(ResultA(tx, a, c), w, t2, q2) :
        tx \in {Absent, Null, TxA}, a \in {Absent, Null, ApproveTxA},
        c \in {Absent, Null, Num(0), Num(1), Str(<<"1">>)},
        w \in {Absent, WarningA},
        t2 \in {Absent, TxB(Absent)}, q2 \in {Absent, QuoteB(Str(<<"1">>))}}
    \cup {InputA(r, Absent, Absent, Absent) : r \in {Null, Num(5), Arr(<<>>)}}

\* values that match neither detection rule
OtherInputs ==
    {Obj(<<>>), Obj([foo |-> Num(1)]), Arr(<<>>), Arr(<<Num(1)>>), Num(5),
     Str(<<"t", "x">>), Bool(TRUE), Null,
     Obj([tx |-> TxB(Absent)]), Obj([quote |-> QuoteB(Str(<<"1">>))]),
     Obj([tx |-> TxB(Absent), approve_tx |-> ApproveTxB])}

AllValues == TypedInputsB \cup UntypedInputsB \cup InputsA \cup OtherInputs
AllTexts == {EmptyText, MalformedText} \cup {JsonText(v) : v \in AllValues}

\* the texts pasted in the page's state machine
PageTexts ==
    {MalformedText,
     JsonText(InputA(ResultA(TxA, ApproveTxA, Num(1)), Absent, Absent, Absent)),
     JsonText(InputB(TxB(Absent), QuoteB(Str(<<"1", "0">>)), Absent, Absent))}

\* the amounts and decimals shown by the preview, page.tsx:382-388
AmountDigits ==
    {<<0>>, <<1>>, <<1, 0, 0>>, <<1, 5, 0, 0>>, <<1, 0, 0, 0, 0, 0, 1>>,
     Pow10(18), <<1, 5>> \o [i \in 1..17 |-> 0], Pow10(23),
     <<1, 2, 3, 4, 5, 6, 7, 8, 9, 0>> \o <<1, 2, 3, 4, 5, 6, 7, 8, 9, 0>>
        \o <<1, 2, 3, 4, 5, 6, 7, 8, 9, 0>>,
     \* 2^256 - 1
     <<1, 1, 5, 7, 9, 2, 0, 8, 9, 2, 3, 7, 3, 1, 6, 1, 9, 5, 4, 2, 3, 5, 7,
       0, 9, 8, 5, 0, 0, 8, 6, 8, 7, 9, 0, 7, 8, 5, 3, 2, 6, 9, 9, 8,
       4, 6, 6, 5, 6, 4, 0, 5, 6, 4, 0, 3, 9, 4, 5, 7, 5, 8, 4, 0, 0,
       7, 9, 1, 3, 1, 2, 9, 6, 3, 9, 9, 3, 5>>}

AmountStrings ==
    {DigitString(a) : a \in AmountDigits} \cup {<<"0", "0", "7">>}

DecimalsValues == {0, 1, 3, 6, 18, 22, 23, 24, 309}

QuoteAmount(amount, decimals) ==
    Obj([fromAsset |-> AssetA("A", decimals), toAsset |-> AssetA("B", 0),
         fromAmount |-> Str(amount), toAmount |-> SAmountOut])

AmountTexts ==
    {JsonText(Obj([result |-> Obj([tx |-> TxA, chainId |-> Num(1),
                                   quote |-> QuoteAmount(a, d)])])) :
        a \in AmountStrings, d \in DecimalsValues}

\* the records that parseJsonData stores for the texts of the page
StoredRecords ==
    {ParseResult(text) : text \in {x \in PageTexts : ~IsThrow(ParseResult(x))}}

(***************************************************************************)
(* executeTransactions, page.tsx:225-288.  A run is one invocation that    *)
(* passed the guard of line 226; rec and acct are the parsedData and       *)
(* account its closure captured, pc the await it is suspended at.          *)
(***************************************************************************)
\* defineChain(parsedData.chainId), page.tsx:237
DefineChain(id) == Obj([id |-> id])

TargetChain(rec) == DefineChain(Get(rec, "chainId"))

\* prepareTransaction({...}) of the approval, page.tsx:245-252
ApprovalTx(rec) ==
    LET a == Get(rec, "approveTx")
    IN  Literal([to       |-> Get(a, "to"),
                 data     |-> Get(a, "data"),
                 gas      |-> BigInt(Get(a, "gas")),
                 gasPrice |-> BigInt(Get(a, "gasPrice"))])

\* mutant: the value is scaled by the decimals of the quote's fromAsset
MainTxScaled(rec) ==
    LET tx == Get(rec, "tx")
        v == BigInt(Get(tx, "value"))
        d == Get(Get(Get(rec, "quote"), "fromAsset"), "decimals")
    IN  Literal([to       |-> Get(tx, "to"),
                 data     |-> Get(tx, "data"),
                 value    |-> IF IsThrow(v) THEN v ELSE BigIntOf(v.n * 10 ^ d.n),
                 gas      |-> BigInt(Get(tx, "gas")),
                 gasPrice |-> BigInt(Get(tx, "gasPrice"))])

\* prepareTransaction({...}) of the main transaction, page.tsx:265-273
MainTx(rec) ==
    LET tx == Get(rec, "tx")
    IN  Literal([to       |-> Get(tx, "to"),
                 data     |-> Get(tx, "data"),
                 value    |-> BigInt(Get(tx, "value")),
                 gas      |-> BigInt(Get(tx, "gas")),
                 gasPrice |-> BigInt(Get(tx, "gasPrice"))])

\* what prepareTransaction is given for each record the page can store
\* (the transactions of a record are computed once)
PreparedApproval == [rec \in StoredRecords |-> ApprovalTx(rec)]
PreparedMain == [rec \in StoredRecords |-> MainTx(rec)]

\* mutant: the approval is looked up under the snake_case key
HasApprovalWrongKey(rec) == Truthy(Get(rec, "approve_tx"))

\* if (parsedData.approveTx), page.tsx:242
HasApproval(rec) == Truthy(Get(rec, "approveTx"))

\* mutant: no finally clause, the flag stays set after a failure
FailKeepsFlag(i, m, log) ==
    /\ error' = FailedText(m)
    /\ txStatus' = ""
    /\ isExecuting' = isExecuting
    /\ runs' = [runs EXCEPT ![i].pc = "failed"]
    /\ calls' = log

\* the catch and finally clauses, page.tsx:282-287
Fail(i, m, log) ==
    /\ error' = FailedText(m)
    /\ txStatus' = ""
    /\ isExecuting' = FALSE
    /\ runs' = [runs EXCEPT ![i].pc = "failed"]
    /\ calls' = log

\* mutant: the continuation reads the record that is stored when it runs
SubmitMainStoredRecord(i, log) ==
    LET tx == MainTx(parsedData)
    IN  IF IsThrow(tx) THEN Fail(i, tx.msg, log)
        ELSE /\ txStatus' = MainStatus
             /\ runs' = [runs EXCEPT ![i].pc = "main"]
             /\ calls' = Append(log, Event(i, "sendMain",
                                           TargetChain(parsedData), tx, ""))
             /\ UNCHANGED <<error, isExecuting>>

\* from line 263 to the await of line 275
SubmitMain(i, log) ==
    LET tx == PreparedMain[runs[i].rec]
    IN  IF IsThrow(tx) THEN Fail(i, tx.msg, log)
        ELSE /\ txStatus' = MainStatus
             /\ runs' = [runs EXCEPT ![i].pc = "main"]
             /\ calls' = Append(log, Event(i, "sendMain",
                                           TargetChain(runs[i].rec), tx, ""))
             /\ UNCHANGED <<error, isExecuting>>

\* from line 243 to the await of line 254
SubmitApproval(i, log) ==
    LET tx == PreparedApproval[runs[i].rec]
    IN  IF IsThrow(tx) THEN Fail(i, tx.msg, log)
        ELSE /\ txStatus' = ApprovalStatus
             /\ runs' = [runs EXCEPT ![i].pc = "approval"]
             /\ calls' = Append(log, Event(i, "sendApproval",
                                           TargetChain(runs[i].rec), tx, ""))
             /\ UNCHANGED <<error, isExecuting>>

\* mutant: the guard of line 226 tests the record only
executeTransactionsNoAccountCheck ==
    IF parsedData = Null
    THEN /\ error' = NotConnectedMsg
         /\ UNCHANGED <<jsonInput, parsedData, isExecuting, txStatus, account,
                        normalized, runs, calls>>
    ELSE /\ Len(runs) < MaxRuns
         /\ isExecuting' = TRUE
         /\ txStatus' = ""
         /\ error' = ""
         /\ runs' = Append(runs, [pc |-> "switchChain", rec |-> parsedData,
                                  acct |-> account])
         /\ calls' = Append(calls, Event(Len(runs) + 1, "switchChain",
                                         TargetChain(parsedData), Undefined, ""))
         /\ UNCHANGED <<jsonInput, parsedData, account, normalized>>

\* the handler up to its first await, page.tsx:225-238
executeTransactions ==
    IF parsedData = Null \/ account = NoAccount
    THEN /\ error' = NotConnectedMsg
         /\ UNCHANGED <<jsonInput, parsedData, isExecuting, txStatus, account,
                        normalized, runs, calls>>
    ELSE /\ Len(runs) < MaxRuns
         /\ isExecuting' = TRUE
         /\ txStatus' = ""
         /\ error' = ""
         /\ runs' = Append(runs, [pc |-> "switchChain", rec |-> parsedData,
                                  acct |-> account])
         /\ calls' = Append(calls, Event(Len(runs) + 1, "switchChain",
                                         TargetChain(parsedData), Undefined, ""))
         /\ UNCHANGED <<jsonInput, parsedData, account, normalized>>

\* mutant: the button is rendered outside the preview, without a record
ButtonEnabledNoRecord == account # NoAccount /\ ~isExecuting

\* mutant: the button is not disabled while a run is in progress
ButtonEnabledNoFlag == parsedData # Null /\ account # NoAccount

\* the Execute button is rendered with the preview and enabled by
\* disabled={!account || isExecuting}, page.tsx:369, 443-445
ButtonEnabled == parsedData # Null /\ account # NoAccount /\ ~isExecuting

ClickExecute == ButtonEnabled /\ executeTransactions

\* switchChain resolved: lines 239-254 (or 239-275 without an approval)
SwitchResolved(i) ==
    /\ runs[i].pc = "switchChain"
    /\ LET log == Append(calls, Event(i, "switchResolved",
                                      TargetChain(runs[i].rec), Undefined, ""))
       IN  IF HasApproval(runs[i].rec) THEN SubmitApproval(i, log)
           ELSE SubmitMain(i, log)
    /\ UNCHANGED <<jsonInput, parsedData, account, normalized>>

\* mutant: the failure of the chain switch is swallowed and the flow goes on
SwitchRejectedIgnored(i, m) ==
    /\ runs[i].pc = "switchChain"
    /\ LET log == Append(calls, Event(i, "switchRejected",
                                      TargetChain(runs[i].rec), Undefined, m))
       IN  IF HasApproval(runs[i].rec) THEN SubmitApproval(i, log)
           ELSE SubmitMain(i, log)
    /\ UNCHANGED <<jsonInput, parsedData, account, normalized>>

\* switchChain rejected: lines 282-287
SwitchRejected(i, m) ==
    /\ runs[i].pc = "switchChain"
    /\ Fail(i, m, Append(calls, Event(i, "switchRejected",
                                      TargetChain(runs[i].rec), Undefined, m)))
    /\ UNCHANGED <<jsonInput, parsedData, account, normalized>>

\* the approval was confirmed: lines 259-275.  The hash of the approval only
\* enters the status of line 259, which line 263 replaces at once.
ApprovalConfirmed(i) ==
    /\ runs[i].pc = "approval"
    /\ SubmitMain(i, Append(calls, Event(i, "approvalConfirmed",
                                         TargetChain(runs[i].rec), Undefined, "")))
    /\ UNCHANGED <<jsonInput, parsedData, account, normalized>>

\* mutant: the failure of the approval is swallowed and the flow goes on
ApprovalRejectedIgnored(i, m) ==
    /\ runs[i].pc = "approval"
    /\ SubmitMain(i, Append(calls, Event(i, "approvalRejected",
                                         TargetChain(runs[i].rec), Undefined, m)))
    /\ UNCHANGED <<jsonInput, parsedData, account, normalized>>

\* the approval failed: lines 282-287
ApprovalRejected(i, m) ==
    /\ runs[i].pc = "approval"
    /\ Fail(i, m, Append(calls, Event(i, "approvalRejected",
                                      TargetChain(runs[i].rec), Undefined, m)))
    /\ UNCHANGED <<jsonInput, parsedData, account, normalized>>

\* the main transaction was confirmed: lines 280, 285-287
MainConfirmed(i, h) ==
    /\ runs[i].pc = "main"
    /\ txStatus' = SuccessStatus(h)
    /\ isExecuting' = FALSE
    /\ runs' = [runs EXCEPT ![i].pc = "confirmed"]
    /\ calls' = Append(calls, Event(i, "mainConfirmed",
                                    TargetChain(runs[i].rec), Undefined, h))
    /\ UNCHANGED <<jsonInput, parsedData, account, normalized, error>>

\* mutant: a failed main transaction is submitted again
MainRejectedResubmits(i, m) ==
    /\ runs[i].pc = "main"
    /\ SubmitMain(i, Append(calls, Event(i, "mainRejected",
                                         TargetChain(runs[i].rec), Undefined, m)))
    /\ UNCHANGED <<jsonInput, parsedData, account, normalized>>

\* the main transaction failed: lines 282-287
MainRejected(i, m) ==
    /\ runs[i].pc = "main"
    /\ Fail(i, m, Append(calls, Event(i, "mainRejected",
                                      TargetChain(runs[i].rec), Undefined, m)))
    /\ UNCHANGED <<jsonInput, parsedData, account, normalized>>

\* the settlement of the external call a run awaits
Settle ==
    \E i \in 1..Len(runs) :
        \/ SwitchResolved(i)
        \/ \E m \in RejectMsgs : SwitchRejected(i, m)
        \/ ApprovalConfirmed(i)
        \/ \E m \in RejectMsgs : ApprovalRejected(i, m)
        \/ \E h \in Hashes : MainConfirmed(i, h)
        \/ \E m \in RejectMsgs : MainRejected(i, m)

(***************************************************************************)
(* The specifications                                                      *)
(***************************************************************************)
\* the page as its user drives it
Next ==
    \/ \E a \in Accounts : Connect(a)
    \/ Disconnect
    \/ \E text \in PageTexts : SetJsonInput(text)
    \/ parseJsonData
    \/ Clear
    \/ ClickExecute
    \/ Settle

Spec == Init /\ [][Next]_vars

\* executeTransactions called as a function, whatever the button shows, in
\* a render whose parsedData and account are any of the samples; the caller
\* awaits the promise of one call before it makes the next
InitCall ==
    /\ jsonInput = EmptyText
    /\ parsedData \in {Null} \cup StoredRecords
    /\ isExecuting = FALSE
    /\ txStatus = ""
    /\ error = ""
    /\ account = NoAccount
    /\ normalized = NoCall
    /\ runs = <<>>
    /\ calls = <<>>

Settled(i) == runs[i].pc \in {"confirmed", "failed"}

CallExecute == (\A i \in 1..Len(runs) : Settled(i)) /\ executeTransactions

NextCall ==
    \/ \E a \in Accounts : Connect(a)
    \/ Disconnect
    \/ CallExecute
    \/ Settle

\* the page when every external call eventually resolves or rejects: a
\* pending switchChain or sendAndConfirmTransaction promise is settled
SpecSettling == Init /\ [][Next]_vars /\ WF_vars(Settle)

SpecCall == InitCall /\ [][NextCall]_vars

\* normalizeTransactionData and parseJsonData applied to every sample text
InitParse ==
    /\ jsonInput \in AllTexts
    /\ parsedData = Null
    /\ isExecuting = FALSE
    /\ txStatus = ""
    /\ error = ""
    /\ account = NoAccount
    /\ normalized = NoCall
    /\ runs = <<>>
    /\ calls = <<>>

\* parseJsonData applied to every sample text while a record of an earlier
\* parse is stored
InitReparse ==
    /\ jsonInput \in AllTexts
    /\ parsedData \in StoredRecords
    /\ isExecuting = FALSE
    /\ txStatus = ""
    /\ error = ""
    /\ account = NoAccount
    /\ normalized = NoCall
    /\ runs = <<>>
    /\ calls = <<>>

\* normalizeTransactionData called on the value the text parses to
Normalize ==
    /\ normalized = NoCall
    /\ ~IsThrow(JSONparse(jsonInput))
    /\ normalized' = [raw |-> JSONparse(jsonInput),
                      data |-> normalizeTransactionData(JSONparse(jsonInput))]
    /\ UNCHANGED <<jsonInput, parsedData, isExecuting, txStatus, error,
                   account, runs, calls>>

NextParse == parseJsonData \/ Normalize

SpecParse == InitParse /\ [][NextParse]_vars

\* the preview of a parsed record: formatAmount applied to its amounts
InitFormat ==
    /\ jsonInput \in AmountTexts
    /\ parsedData = Null
    /\ isExecuting = FALSE
    /\ txStatus = ""
    /\ error = ""
    /\ account = NoAccount
    /\ normalized = NoCall
    /\ runs = <<>>
    /\ calls = <<>>

\* formatAmount(parsedData.quote.fromAmount, parsedData.quote.fromAsset.decimals),
\* page.tsx:382, rendered when a record is stored (line 369)
PreviewFromAmount ==
    formatAmount(parsedData.f.quote.f.fromAmount.s,
                 parsedData.f.quote.f.fromAsset.f.decimals.n)

\* formatAmount(parsedData.quote.toAmount, parsedData.quote.toAsset.decimals),
\* page.tsx:388
PreviewToAmount ==
    formatAmount(parsedData.f.quote.f.toAmount.s,
                 parsedData.f.quote.f.toAsset.f.decimals.n)

NextFormat == parseJsonData

SpecFormat == InitFormat /\ [][NextFormat]_vars

SpecReparse == InitReparse /\ [][NextParse]_vars

(***************************************************************************)
(* Properties                                                              *)
(***************************************************************************)
\* the positions in the log of the events ev of run i
Pos(log, i, ev) == {k \in 1..Len(log) : log[k].run = i /\ log[k].ev = ev}

\* every event ev2 of run i comes after an event ev1 of run i
Precedes(log, i, ev1, ev2) ==
    \A k2 \in Pos(log, i, ev2) : \E k1 \in Pos(log, i, ev1) : k1 < k2

\* the record carries an approval transaction
RecordHasApproveTx(rec) == rec.f.approveTx.t = "object"

\* C1: in a run whose record has an approveTx, the approval is submitted and
\* confirmed before the main transaction is submitted, the main transaction
\* is never submitted without a confirmed approval, and both submissions
\* come after the switch to the record's chainId has resolved.
C1_ApprovalBeforeMain ==
    \A i \in 1..Len(runs) :
        RecordHasApproveTx(runs[i].rec) =>
            /\ Precedes(calls, i, "approvalConfirmed", "sendMain")
            /\ Precedes(calls, i, "sendApproval", "approvalConfirmed")
            /\ Precedes(calls, i, "switchResolved", "sendApproval")
            /\ Precedes(calls, i, "switchChain", "switchResolved")
            /\ \A k \in Pos(calls, i, "switchChain") :
                   calls[k].chain = Obj([id |-> runs[i].rec.f.chainId])

C1_Witness ==
    \E i \in 1..Len(runs) :
        /\ RecordHasApproveTx(runs[i].rec)
        /\ Pos(calls, i, "sendMain") # {}

\* C2: when the approval submission of a run fails (after a successful chain
\* switch), the run ends failed, with the failure shown and the flag and the
\* status cleared, and its main transaction is never submitted.
C2_ApprovalFailureStops ==
    [][\A i \in 1..Len(runs') :
          Pos(calls', i, "approvalRejected") # {} =>
              /\ Pos(calls', i, "switchResolved") # {}
              /\ runs'[i].pc = "failed"
              /\ Pos(calls', i, "sendMain") = {}
              /\ Pos(calls, i, "approvalRejected") = {} =>
                     /\ error' = "Transaction failed: " \o calls'[Len(calls')].res
                     /\ txStatus' = ""
                     /\ isExecuting' = FALSE]_vars

C2_Witness ==
    \E i \in 1..Len(runs) :
        /\ Pos(calls, i, "approvalRejected") # {}
        /\ runs[i].pc = "failed"

\* C3: when the chain switch of a run fails, the run ends failed with the
\* failure shown, and neither its approval nor its main transaction is
\* submitted.
C3_SwitchFailureStops ==
    [][\A i \in 1..Len(runs') :
          Pos(calls', i, "switchRejected") # {} =>
              /\ runs'[i].pc = "failed"
              /\ Pos(calls', i, "sendApproval") = {}
              /\ Pos(calls', i, "sendMain") = {}
              /\ Pos(calls, i, "switchRejected") = {} =>
                     /\ error' = "Transaction failed: " \o calls'[Len(calls')].res
                     /\ txStatus' = ""
                     /\ isExecuting' = FALSE]_vars

C3_Witness ==
    \E i \in 1..Len(runs) :
        /\ Pos(calls, i, "switchRejected") # {}
        /\ runs[i].pc = "failed"

\* C4: a call of executeTransactions without a connected account fails at
\* once with the not-connected error: it starts no run, makes no call to
\* switchChain or sendAndConfirmTransaction and does not set isExecuting.
C4_NoAccountNoCalls ==
    [][account = NoAccount =>
          /\ Len(runs') = Len(runs)
          /\ \A k \in 1..Len(calls') :
                 calls'[k].ev = "switchChain" => k <= Len(calls)
          /\ isExecuting' => isExecuting
          /\ executeTransactions =>
                 /\ error' = "No parsed data or wallet not connected"
                 /\ calls' = calls
                 /\ isExecuting' = isExecuting]_vars

C4_Witness ==
    /\ account = NoAccount
    /\ parsedData # Null
    /\ error = "No parsed data or wallet not connected"
    /\ calls = <<>>
    /\ ~isExecuting

\* the run awaits the settlement of an external call
InFlight(i) == runs[i].pc \in {"switchChain", "approval", "main"}

\* C5: at most one run is outstanding; isExecuting is set while it is; no
\* run starts while isExecuting is set; and the calls of two runs never
\* interleave in the log.
C5_OneAttemptAtATime ==
    [][/\ isExecuting => Len(runs') = Len(runs)
       /\ Cardinality({i \in 1..Len(runs') : runs'[i].pc \in
                           {"switchChain", "approval", "main"}}) <= 1
       /\ (\E i \in 1..Len(runs') : runs'[i].pc \in
                           {"switchChain", "approval", "main"}) => isExecuting'
       /\ \A k \in 1..(Len(calls') - 1) : calls'[k].run <= calls'[k + 1].run]_vars

C5_Witness ==
    /\ Len(runs) = 1
    /\ InFlight(1)
    /\ isExecuting
    /\ parsedData # Null
    /\ account # NoAccount

\* C6: a run whose record has no approveTx never submits an approval, and
\* when its chain switch and main transaction succeed it ends confirmed with
\* the success status that carries the hash of the main confirmation.
C6_NoApprovalSuccess ==
    [][\A i \in 1..Len(runs') :
          ~RecordHasApproveTx(runs'[i].rec) =>
              /\ Pos(calls', i, "sendApproval") = {}
              /\ Pos(calls', i, "approvalConfirmed") = {}
              /\ Pos(calls', i, "mainConfirmed") # {} =>
                     /\ runs'[i].pc = "confirmed"
                     /\ Pos(calls', i, "switchResolved") # {}
              /\ (Pos(calls, i, "mainConfirmed") = {}
                      /\ Pos(calls', i, "mainConfirmed") # {}) =>
                     /\ txStatus' = "Transaction successful! Hash: "
                                        \o calls'[Len(calls')].res
                     /\ calls'[Len(calls')].res \in Hashes
                     /\ isExecuting' = FALSE]_vars

C6_Witness ==
    \E i \in 1..Len(runs) :
        /\ ~RecordHasApproveTx(runs[i].rec)
        /\ runs[i].pc = "confirmed"
        /\ calls[Len(calls)].run = i
        /\ txStatus = "Transaction successful! Hash: " \o calls[Len(calls)].res

\* parseJsonData has run on the text (SpecParse starts with no record and no
\* error, and parseJsonData leaves exactly one of the two)
ParseActed == error # "" \/ parsedData # Null

\* a property that is there and is not null
Present(v) == v.t \notin {"undefined", "null"}

\* C7: a stored record has tx and chainId present and non-null, and a record
\* that normalizeTransactionData returns without tx or without chainId is
\* rejected by parseJsonData with the missing-required-fields error and not
\* stored.
C7_StoredRecordHasRequired ==
    /\ parsedData # Null =>
           /\ parsedData.t = "object"
           /\ Present(parsedData.f.tx)
           /\ Present(parsedData.f.chainId)
    /\ (/\ normalized # NoCall
        /\ normalized.data.t = "object"
        /\ ~Present(normalized.data.f.tx) \/ ~Present(normalized.data.f.chainId)
        /\ ParseActed) =>
           /\ error = "Failed to parse JSON: Invalid transaction data: missing required fields"
           /\ parsedData = Null

C7_Witness ==
    /\ normalized # NoCall
    /\ normalized.data.t = "object"
    /\ Present(normalized.data.f.tx)
    /\ ~Present(normalized.data.f.chainId)
    /\ error = "Failed to parse JSON: Invalid transaction data: missing required fields"
    /\ parsedData = Null

\* the value has the tx and quote keys of Format B and no result key, and
\* its tx, quote and assets are objects
WellFormedB(raw) ==
    /\ raw.t = "object"
    /\ {"tx", "quote"} \subseteq DOMAIN raw.f
    /\ "result" \notin DOMAIN raw.f
    /\ raw.f.tx.t = "object"
    /\ raw.f.quote.t = "object"
    /\ {"from_asset", "to_asset"} \subseteq DOMAIN raw.f.quote.f
    /\ raw.f.quote.f.from_asset.t = "object"
    /\ raw.f.quote.f.to_asset.t = "object"

\* the string starts, after white space and an optional sign, with a digit
HasLeadingInteger(s) ==
    \E k \in 1..Len(s) :
        /\ s[k] \in {"0", "1", "2", "3", "4", "5", "6", "7", "8", "9"}
        /\ \A j \in 1..(k - 1) :
               \/ s[j] \in {" ", "\t", "\n"}
               \/ j = k - 1 /\ s[j] \in {"+", "-"}

\* a Format B value whose quote.chain_id is a string with no base-10 integer
UnparsableChainId(raw) ==
    /\ WellFormedB(raw)
    /\ "chain_id" \in DOMAIN raw.f.quote.f
    /\ raw.f.quote.f.chain_id.t = "string"
    /\ ~HasLeadingInteger(raw.f.quote.f.chain_id.s)

MatchesNeither(raw) ==
    /\ ~(raw.t = "object" /\ "result" \in DOMAIN raw.f)
    /\ ~(raw.t = "object" /\ {"tx", "quote"} \subseteq DOMAIN raw.f)

\* C9: for a value that matches neither detection rule,
\* normalizeTransactionData throws the unrecognized-format error and returns
\* no record; parseJsonData shows that error and stores nothing.
C9_UnrecognizedFormat ==
    /\ (normalized # NoCall /\ MatchesNeither(normalized.raw)) =>
           normalized.data = [t |-> "throw", msg |-> "Unrecognized JSON format"]
    /\ (ParseActed /\ jsonInput.k = "json" /\ MatchesNeither(jsonInput.v)) =>
           /\ error = "Failed to parse JSON: Unrecognized JSON format"
           /\ parsedData = Null

C9_Witness ==
    /\ normalized # NoCall
    /\ MatchesNeither(normalized.raw)
    /\ normalized.raw.t = "object"
    /\ "tx" \in DOMAIN normalized.raw.f
    /\ IsThrow(normalized.data)
    /\ error = "Failed to parse JSON: Unrecognized JSON format"

\* the integer that each sample chain_id stands for in base 10
ExpectedChainId(c) ==
    CASE c = Str(<<"1">>) -> Num(1)
      [] c = Str(<<"1", "0">>) -> Num(10)
      [] c = Str(<<"0">>) -> Num(0)
      [] c = Str(<<"1", "2", "a">>) -> Num(12)
      [] c = Str(<<" ", "7">>) -> Num(7)
      [] c = Str(<<"-", "3">>) -> Num(0 - 3)
      [] c = Str(<<"0", "x", "1">>) -> Num(0)
      [] OTHER -> NaN

\* the camelCase asset carries the fields of the snake_case asset
AssetCarried(a, b) ==
    /\ DOMAIN b.f = {"name", "currencyCode", "address", "decimals"}
    /\ b.f.name = a.f.name
    /\ b.f.currencyCode = a.f.currency_code
    /\ b.f.address = a.f.address
    /\ b.f.decimals = a.f.decimals

\* the record d carries every field of the Format B value raw but fee, with
\* value as its tx.value
FormatBCarried(raw, d, value) ==
    /\ d.t = "object"
    /\ DOMAIN d.f = {"tx", "quote", "approveTx", "chainId"}
    /\ DOMAIN d.f.tx.f = {"data", "gas", "gasPrice", "from", "to", "value"}
    /\ d.f.tx.f.data = raw.f.tx.f.data
    /\ d.f.tx.f.gas = raw.f.tx.f.gas
    /\ d.f.tx.f.gasPrice = raw.f.tx.f.gas_price
    /\ d.f.tx.f.from = raw.f.tx.f.from
    /\ d.f.tx.f.to = raw.f.tx.f.to
    /\ d.f.tx.f.value = value
    /\ DOMAIN d.f.quote.f = {"fromAsset", "toAsset", "fromAmount", "toAmount"}
    /\ AssetCarried(raw.f.quote.f.from_asset, d.f.quote.f.fromAsset)
    /\ AssetCarried(raw.f.quote.f.to_asset, d.f.quote.f.toAsset)
    /\ d.f.quote.f.fromAmount = raw.f.quote.f.from_amount
    /\ d.f.quote.f.toAmount = raw.f.quote.f.to_amount
    /\ IF "approve_tx" \in DOMAIN raw.f
       THEN /\ d.f.approveTx.t = "object"
            /\ DOMAIN d.f.approveTx.f = {"data", "gas", "gasPrice", "from", "to"}
            /\ d.f.approveTx.f.data = raw.f.approve_tx.f.data
            /\ d.f.approveTx.f.gas = raw.f.approve_tx.f.gas
            /\ d.f.approveTx.f.gasPrice = raw.f.approve_tx.f.gas_price
            /\ d.f.approveTx.f.from = raw.f.approve_tx.f.from
            /\ d.f.approveTx.f.to = raw.f.approve_tx.f.to
       ELSE d.f.approveTx = Undefined
    /\ d.f.chainId = ExpectedChainId(raw.f.quote.f.chain_id)

\* C10 as stated: for an input that follows the Format B interface the
\* returned record carries every field but fee under its camelCase name,
\* chainId is the base-10 integer of quote.chain_id, and tx.value is the
\* input's tx.value when the key is present and "0" when it is omitted.
C10_Original ==
    (normalized # NoCall /\ normalized.raw \in TypedInputsB) =>
        FormatBCarried(normalized.raw, normalized.data,
                       IF "value" \in DOMAIN normalized.raw.f.tx.f
                       THEN normalized.raw.f.tx.f.value
                       ELSE Str(<<"0">>))

\* C10 amended: the same, but tx.value is the input's tx.value when it is
\* present and not the empty string, and "0" when it is omitted or empty.
C10_FormatBCarried ==
    (normalized # NoCall /\ normalized.raw \in TypedInputsB) =>
        FormatBCarried(normalized.raw, normalized.data,
                       IF /\ "value" \in DOMAIN normalized.raw.f.tx.f
                          /\ normalized.raw.f.tx.f.value # Str(<<>>)
                       THEN normalized.raw.f.tx.f.value
                       ELSE Str(<<"0">>))

C10_Witness ==
    /\ normalized # NoCall
    /\ normalized.raw \in TypedInputsB
    /\ {"approve_tx", "fee", "value"} \subseteq
           DOMAIN normalized.raw.f \cup DOMAIN normalized.raw.f.tx.f
    /\ normalized.raw.f.tx.f.value = Str(<<>>)
    /\ normalized.data.f.tx.f.value = Str(<<"0">>)
    /\ normalized.data.f.approveTx.t = "object"

\* C12: a parse action that fails (malformed JSON, unrecognized format,
\* missing required fields, unparsable chain id) clears the stored record,
\* sets an error text and leaves the raw input text unchanged.
C12_FailedParseClears ==
    [][(parseJsonData /\ IsThrow(ParseResult(jsonInput))) =>
           /\ parsedData' = Null
           /\ error' # ""
           /\ jsonInput' = jsonInput]_vars

\* a record was stored, the text has an unparsable chain id, and the parse
\* has failed
C12_Witness ==
    /\ jsonInput.k = "json"
    /\ UnparsableChainId(jsonInput.v)
    /\ error = ParseErrorText(MissingFieldsMsg)
    /\ parsedData = Null

\* the value of the property k of v: undefined when v has no such property
PropOf(v, k) ==
    IF v.t = "object" /\ k \in DOMAIN v.f THEN v.f[k] ELSE [t |-> "undefined"]

\* the value is an object with a result key
HasResultKey(raw) == raw.t = "object" /\ "result" \in DOMAIN raw.f

\* the record d carries result.tx, result.quote, result.approveTx and
\* result.chainId of raw, and the top-level warning of raw
FormatACarried(raw, d) ==
    /\ d.t = "object"
    /\ DOMAIN d.f = {"tx", "quote", "approveTx", "chainId", "warning"}
    /\ d.f.tx = PropOf(raw.f.result, "tx")
    /\ d.f.quote = PropOf(raw.f.result, "quote")
    /\ d.f.approveTx = PropOf(raw.f.result, "approveTx")
    /\ d.f.chainId = PropOf(raw.f.result, "chainId")
    /\ d.f.warning = PropOf(raw, "warning")

\* C11 as stated: for every object with a result key (also one that has tx
\* and quote keys at top level) normalizeTransactionData returns a record
\* whose tx, quote, approveTx and chainId are those of result and whose
\* warning is the top-level warning.
C11_Original ==
    (normalized # NoCall /\ HasResultKey(normalized.raw)) =>
        FormatACarried(normalized.raw, normalized.data)

\* C11 amended: the same for every object with a result key whose result is
\* not null; for a null result normalizeTransactionData throws a TypeError
\* and returns no record.
C11_FormatACarried ==
    /\ (/\ normalized # NoCall
        /\ HasResultKey(normalized.raw)
        /\ normalized.raw.f.result # Null) =>
           FormatACarried(normalized.raw, normalized.data)
    /\ (/\ normalized # NoCall
        /\ HasResultKey(normalized.raw)
        /\ normalized.raw.f.result = Null) =>
           /\ IsThrow(normalized.data)
           /\ normalized.data.msg # "Unrecognized JSON format"

C11_Witness ==
    /\ normalized # NoCall
    /\ normalized.raw.t = "object"
    /\ normalized.data.t = "object"
    /\ {"result", "warning", "tx", "quote"} \subseteq DOMAIN normalized.raw.f
    /\ normalized.raw.f.result.t = "object"
    /\ {"tx", "approveTx", "chainId"} \subseteq DOMAIN normalized.raw.f.result.f
    /\ normalized.data.f.tx = normalized.raw.f.result.f.tx
    /\ normalized.data.f.tx # normalized.raw.f.tx
    /\ normalized.data.f.approveTx.t = "object"
    /\ normalized.data.f.warning = normalized.raw.f.warning

\* whole "." fraction of a / 10^d read off the decimal digits of a: whole
\* is a without its last d digits, fraction is those d digits
ExactFormat(a, d) ==
    LET n == Strip([i \in 1..Len(a) |-> DigitVal(a[i])])
        m == IF Len(n) > d THEN Len(n) ELSE d
        p == Pad(n, m)
        whole == IF m > d THEN SubSeq(n, 1, m - d) ELSE <<0>>
        frac == SubSeq(p, m - d + 1, m)
    IN  IF \A i \in 1..d : frac[i] = 0 THEN DigitString(whole)
        ELSE DigitString(whole) \o <<".">> \o TrimTrailingZeros(DigitString(frac))

\* C13: for every non-negative decimal-integer string a and every
\* non-negative integer d, formatAmount(a, d) is the exact whole and
\* fraction of a / 10^d: whole alone when the fraction is 0, otherwise
\* whole "." fraction padded to d digits with its trailing zeros stripped.
C13_FormatAmountExact ==
    parsedData # Null =>
        PreviewFromAmount =
            {Str(ExactFormat(parsedData.f.quote.f.fromAmount.s,
                             parsedData.f.quote.f.fromAsset.f.decimals.n))}

\* the same for the decimals whose power of ten is a Number (up to 22)
C13_ExactUpTo22 ==
    (parsedData # Null
        /\ parsedData.f.quote.f.fromAsset.f.decimals.n <= 22) =>
        PreviewFromAmount =
            {Str(ExactFormat(parsedData.f.quote.f.fromAmount.s,
                             parsedData.f.quote.f.fromAsset.f.decimals.n))}

\* 10^23 shown with 23 decimals is not "1"
C13_Inexact ==
    /\ parsedData # Null
    /\ parsedData.f.quote.f.fromAmount.s = DigitString(Pow10(23))
    /\ parsedData.f.quote.f.fromAsset.f.decimals.n = 23
    /\ Str(<<"1">>) \notin PreviewFromAmount

\* C14: while a run is outstanding, no parse or clear action changes the
\* stored record, the status text or the error text: the run is their only
\* mutator between its start and its end.
C14_SingleMutator ==
    [][((\E i \in 1..Len(runs) : InFlight(i)) /\ (parseJsonData \/ Clear)) =>
           UNCHANGED <<parsedData, txStatus, error>>]_vars

\* the events that invoke an external call, and those that report its failure
CallEvents == {"switchChain", "sendApproval", "sendMain"}
RejectedEvents == {"switchRejected", "approvalRejected", "mainRejected"}

\* C15: a run invokes the chain switch, the approval submission and the main
\* submission at most once each, and after one of its calls has failed the
\* log holds no further event of that run: every later call belongs to a
\* later run, which the user started.
C15_NoRetry ==
    \A i \in 1..Len(runs) :
        /\ \A ev \in CallEvents : Cardinality(Pos(calls, i, ev)) <= 1
        /\ \A k \in 1..Len(calls) :
              (calls[k].run = i /\ calls[k].ev \in RejectedEvents) =>
                  /\ runs[i].pc = "failed"
                  /\ \A k2 \in (k + 1)..Len(calls) : calls[k2].run > i

C15_Witness ==
    \E k \in 1..Len(calls) :
        /\ calls[k].ev \in RejectedEvents
        /\ \E k2 \in (k + 1)..Len(calls) :
              /\ calls[k2].run > calls[k].run
              /\ calls[k2].ev = "sendMain"

\* the integer that a string of decimal digits denotes, as a BigInt
Denoted(str) == [t |-> "bigint", n |-> DigitsValue(str.s, 0)]

\* C16: the main transaction of a run is submitted with exactly to, data,
\* value, gas and gasPrice, each the value of the same field of the tx of
\* the run's record, and the approval with exactly to, data, gas and
\* gasPrice (no value) of the record's approveTx; the decimals of the quote
\* scale none of them.
C16_SubmittedValues ==
    \A k \in 1..Len(calls) :
        LET rec == runs[calls[k].run].rec
            sent == calls[k].tx
        IN  /\ calls[k].ev = "sendMain" =>
                 /\ sent.t = "object"
                 /\ DOMAIN sent.f = {"to", "data", "value", "gas", "gasPrice"}
                 /\ sent.f.to = rec.f.tx.f.to
                 /\ sent.f.data = rec.f.tx.f.data
                 /\ sent.f.value = Denoted(rec.f.tx.f.value)
                 /\ sent.f.gas = Denoted(rec.f.tx.f.gas)
                 /\ sent.f.gasPrice = Denoted(rec.f.tx.f.gasPrice)
            /\ calls[k].ev = "sendApproval" =>
                 /\ sent.t = "object"
                 /\ DOMAIN sent.f = {"to", "data", "gas", "gasPrice"}
                 /\ sent.f.to = rec.f.approveTx.f.to
                 /\ sent.f.data = rec.f.approveTx.f.data
                 /\ sent.f.gas = Denoted(rec.f.approveTx.f.gas)
                 /\ sent.f.gasPrice = Denoted(rec.f.approveTx.f.gasPrice)

\* a run whose quote has a fromAsset of 2 decimals submitted its approval
\* and then its main transaction with the value 5 of its record
C16_Witness ==
    \E k \in 1..Len(calls) :
        /\ calls[k].ev = "sendMain"
        /\ calls[k].tx.f.value = [t |-> "bigint", n |-> 5]
        /\ runs[calls[k].run].rec.f.quote.f.fromAsset.f.decimals = Num(2)
        /\ Pos(calls, calls[k].run, "sendApproval") # {}

\* C17: when every external call eventually settles, a set in-progress flag
\* is eventually cleared, whatever the outcome of the run; the step in which
\* a run fails clears the flag and the status text and sets an error, and
\* the Execute button is then enabled again whenever a record is stored and
\* a wallet is connected.
C17_FlagEventuallyCleared ==
    /\ isExecuting ~> ~isExecuting
    /\ [][\A i \in 1..Len(runs) :
             (runs[i].pc # "failed" /\ runs'[i].pc = "failed") =>
                 /\ isExecuting' = FALSE
                 /\ txStatus' = ""
                 /\ error' # ""
                 /\ (parsedData' # Null /\ account' # NoAccount) => ButtonEnabled']_vars

\* a run failed and the user has started the next one
C17_Witness ==
    /\ Len(runs) = 2
    /\ runs[1].pc = "failed"
    /\ runs[2].pc = "switchChain"
    /\ isExecuting

\* the event e was made from the record rec: its chain is the chain of
\* rec.chainId and the transaction it submits has the to and data of the
\* tx (main) or of the approveTx (approval) of rec
MadeFrom(e, rec) ==
    /\ e.chain = [t |-> "object", f |-> [id |-> rec.f.chainId]]
    /\ e.ev = "sendMain" =>
          /\ e.tx.f.to = rec.f.tx.f.to
          /\ e.tx.f.data = rec.f.tx.f.data
          /\ e.tx.f.gas = Denoted(rec.f.tx.f.gas)
    /\ e.ev = "sendApproval" =>
          /\ e.tx.f.to = rec.f.approveTx.f.to
          /\ e.tx.f.data = rec.f.approveTx.f.data
          /\ e.tx.f.gas = Denoted(rec.f.approveTx.f.gas)

\* C18: the record of a run is the record that was stored when the run was
\* triggered and never changes afterwards, and every call a step appends to
\* the log is made from the record of its run, whatever parseJsonData or
\* Clear have stored in the meantime.
C18_CapturedRecord ==
    [][/\ \A i \in 1..Len(runs') :
             runs'[i].rec = IF i <= Len(runs) THEN runs[i].rec ELSE parsedData
       /\ \A k \in (Len(calls) + 1)..Len(calls') :
             MadeFrom(calls'[k], runs'[calls'[k].run].rec)]_vars

\* the main transaction of a run was submitted while another record, or
\* none, was stored
C18_Witness ==
    \E i \in 1..Len(runs) :
        /\ runs[i].pc = "main"
        /\ parsedData \notin {Null, runs[i].rec}
        /\ parsedData.f.chainId # runs[i].rec.f.chainId
        /\ Pos(calls, i, "sendMain") # {}

\* the record passed normalizeTransactionData and the check of line 214
PassedChecks(rec) ==
    /\ rec.t = "object"
    /\ {"tx", "quote", "approveTx", "chainId"} \subseteq DOMAIN rec.f
    /\ rec.f.tx.t = "object"
    /\ rec.f.chainId.t = "number"
    /\ rec.f.chainId.n # 0

\* C19: every call in the log belongs to a run that was started while a
\* record that passed normalization and the required-field check was
\* stored and a wallet account was connected; a step that starts a run is
\* taken with both present; and the button never calls the handler without
\* them (the handler's guard message is never set).
C19_NoCallWithoutRecord ==
    [][/\ \A k \in 1..Len(calls') : calls'[k].run \in 1..Len(runs')
       /\ \A i \in 1..Len(runs') :
             /\ PassedChecks(runs'[i].rec)
             /\ runs'[i].acct # "undefined"
       /\ Len(runs') > Len(runs) =>
             /\ parsedData # Null
             /\ PassedChecks(parsedData)
             /\ account # "undefined"
             /\ Len(calls') = Len(calls) + 1
       /\ Len(runs') = Len(runs) =>
             \A k \in (Len(calls) + 1)..Len(calls') : calls'[k].run <= Len(runs)
       /\ error' # "No parsed data or wallet not connected"]_vars

\* the state after a click that started the first run
C19_Witness ==
    /\ Len(runs) = 1
    /\ Len(calls) = 1
    /\ calls[1].ev = "switchChain"
    /\ parsedData = runs[1].rec
    /\ account = runs[1].acct
    /\ isExecuting
====
